---- MODULE Spec2Model ----
(***************************************************************************)
(* Model of dancing_links/dancing_links.py: the four-way linked fabric     *)
(* (Cell, Link, Col), its builder (Instance), Col.cover / Col.uncover, the *)
(* generator dancing_links.search and the two consumers of the generator   *)
(* that the file contains (the unit test's list(...) over a dense matrix   *)
(* and __main__'s zip(..., range(limit)) over the text protocol).          *)
(*                                                                         *)
(* Node numbering: head is node 0, the header of column ci is node ci+1,   *)
(* the k-th Link created by Instance.initialize is node ncols+k.  Row and  *)
(* column indices are 0-based as in the source.                            *)
(***************************************************************************)
EXTENDS Integers, Sequences, FiniteSets, TLC

VARIABLES input, pc, err, entries, fab, out, frames, result, results, zipped,
          covers, calls, entry, prior

vars == <<input, pc, err, entries, fab, out, frames, result, results, zipped,
          covers, calls, entry, prior>>

(***************************************************************************)
(* Bounds of the inputs.                                                   *)
(***************************************************************************)
MaxRows == 3
MaxCols == 3
MaxOnes == 4
MaxTokens == 3
MaxLimit == 2
MaxCovers == 3
MaxCoverOnes == 2
MaxEntries == 3

(***************************************************************************)
(* Small helpers.                                                          *)
(***************************************************************************)
Range(s) == {s[i] : i \in 1..Len(s)}

Last(s) == s[Len(s)]

Front(s) == SubSeq(s, 1, Len(s) - 1)

RECURSIVE Flatten(_)
Flatten(ss) == IF ss = <<>> THEN <<>> ELSE Head(ss) \o Flatten(Tail(ss))

RECURSIVE SumSeq(_)
SumSeq(s) == IF s = <<>> THEN 0 ELSE Head(s) + SumSeq(Tail(s))

\* Op(x), and Op(x, y), with the arguments computed before Op is entered:
\* the value a loop of the source holds in a variable is computed once.
Apply(Op(_), x) == CHOOSE r \in {Op(v) : v \in {x}} : TRUE

Apply2(Op(_, _), x, y) == CHOOSE r \in {Op(v, w) : v \in {x}, w \in {y}} : TRUE

first(p) == p[1]

second(p) == p[2]

(***************************************************************************)
(* The two producers of entries.                                           *)
(***************************************************************************)
\* Instance.from_matrix: the (ri, ci) of every 1 of M, row by row.
RowOnes(ri, Mrow) ==
  LET RECURSIVE Scan(_)
      Scan(ci) == IF ci >= Len(Mrow) THEN <<>>
                  ELSE (IF Mrow[ci + 1] = 1 THEN << <<ri, ci>> >> ELSE <<>>)
                       \o Scan(ci + 1)
  IN Scan(0)

from_matrix(M) == Flatten([i \in 1..Len(M) |-> RowOnes(i - 1, M[i])])

\* __main__: col_index = {col: i for i, col in enumerate(cols)}; a later
\* position of a repeated name overwrites an earlier one.
HasKey(cols, name) == \E i \in 1..Len(cols) : cols[i] = name

col_index(cols, name) ==
  (CHOOSE i \in 1..Len(cols) :
      /\ cols[i] = name
      /\ \A j \in 1..Len(cols) : cols[j] = name => j <= i) - 1

main_entries(cols, rows) ==
  Flatten([i \in 1..Len(rows) |->
             [k \in 1..Len(rows[i]) |-> <<i - 1, col_index(cols, rows[i][k])>>]])

main_keys_ok(cols, rows) ==
  \A i \in 1..Len(rows) : \A k \in 1..Len(rows[i]) : HasKey(cols, rows[i][k])

(***************************************************************************)
(* Cell, Link, Col.                                                        *)
(***************************************************************************)
head == 0

\* Cell.__init__ / Link.__init__ / Col.__init__ for every node 0..n: each
\* node is its own neighbour in the four directions, count is 0, C is None
\* (-1) and row is -1.
NewNodes(n) ==
  [N     |-> [x \in 0..n |-> x],
   E     |-> [x \in 0..n |-> x],
   S     |-> [x \in 0..n |-> x],
   W     |-> [x \in 0..n |-> x],
   count |-> [x \in 0..n |-> 0],
   C     |-> [x \in 0..n |-> -1],
   row   |-> [x \in 0..n |-> -1]]

insert_E(f, self, other) ==
  LET f1 == [f  EXCEPT !.W[other] = self]
      f2 == [f1 EXCEPT !.E[other] = f.E[self]]
      f3 == [f2 EXCEPT !.W[f2.E[self]] = other]
  IN  [f3 EXCEPT !.E[self] = other]

insert_S(f, self, other) ==
  LET f1 == [f  EXCEPT !.N[other] = self]
      f2 == [f1 EXCEPT !.S[other] = f.S[self]]
      f3 == [f2 EXCEPT !.N[f2.S[self]] = other]
  IN  [f3 EXCEPT !.S[self] = other]

\* Cell.iter_dir as the list it yields when the circle is not changed while
\* it is walked (used where the source consumes it at once: min, the test).
RECURSIVE IterFrom(_, _, _, _)
IterFrom(f, dir, self, cur) ==
  LET nxt == f[dir][cur]
  IN  IF nxt = self THEN <<>> ELSE <<nxt>> \o IterFrom(f, dir, self, nxt)

iter_dir(f, self, dir) == IterFrom(f, dir, self, self)

\* link_row: reduce(link, lst) inserts every element east of its predecessor.
RECURSIVE link_row(_, _)
link_row(f, lst) ==
  IF Len(lst) <= 1 THEN f
  ELSE Apply2(link_row, insert_E(f, lst[1], lst[2]), Tail(lst))

(***************************************************************************)
(* Instance.                                                               *)
(***************************************************************************)
\* max(entries, key=...) + 1
RECURSIVE MaxOf(_, _)
MaxOf(s, k) ==
  IF Len(s) = 1 THEN s[1][k]
  ELSE Apply(LAMBDA m : IF s[1][k] >= m THEN s[1][k] ELSE m, MaxOf(Tail(s), k))

nrows(es) == MaxOf(es, 1) + 1

ncols(es) == MaxOf(es, 2) + 1

\* Instance.__iter__: groupby(entries, key=first), the maximal runs of
\* consecutive entries with the same row index.
RECURSIVE groupby(_)
groupby(es) ==
  IF es = <<>> THEN <<>>
  ELSE Apply(LAMBDA rest :
                IF rest # <<>> /\ first(Head(rest)[1]) = first(Head(es))
                THEN <<(<<Head(es)>> \o Head(rest))>> \o Tail(rest)
                ELSE << <<Head(es)>> >> \o rest,
              groupby(Tail(es)))

\* AddLink with the link given the column index as its row:
\* Link(C=col_header, row=ci).
AddLink_RowIsCol(b, e) ==
  LET ci         == second(e)
      col_header == b.f.S[b.cols[ci + 1]]
      link       == b.next
      f1 == [b.f EXCEPT !.count[col_header] = @ + 1]
      f2 == [f1  EXCEPT !.C[link] = col_header, !.row[link] = ci]
      f3 == insert_S(f2, b.cols[ci + 1], link)
  IN  [f       |-> f3,
       cols    |-> [b.cols EXCEPT ![ci + 1] = link],
       cur_row |-> Append(b.cur_row, link),
       next    |-> b.next + 1]

\* The body of "for ri, ci in row": b is [f, cols, cur_row, next], cols the
\* list of the current bottom node of every column.
AddLink(b, e) ==
  LET ci         == second(e)
      col_header == b.f.S[b.cols[ci + 1]]
      link       == b.next
      f1 == [b.f EXCEPT !.count[col_header] = @ + 1]
      f2 == [f1  EXCEPT !.C[link] = col_header, !.row[link] = first(e)]
      f3 == insert_S(f2, b.cols[ci + 1], link)
  IN  [f       |-> f3,
       cols    |-> [b.cols EXCEPT ![ci + 1] = link],
       cur_row |-> Append(b.cur_row, link),
       next    |-> b.next + 1]

RECURSIVE AddRow(_, _)
AddRow(b, row) ==
  IF row = <<>>
  THEN [b EXCEPT !.f = link_row(b.f, b.cur_row), !.cur_row = <<>>]
  ELSE Apply2(AddRow, AddLink(b, Head(row)), Tail(row))

RECURSIVE AddRows(_, _)
AddRows(b, rows) ==
  IF rows = <<>> THEN b
  ELSE Apply2(AddRows, AddRow(b, Head(rows)), Tail(rows))

initialize(es) ==
  LET nc   == ncols(es)
      f0   == NewNodes(nc + Len(es))
      cols == [i \in 1..nc |-> i]
      f1   == link_row(f0, cols)
      f2   == Apply(LAMBDA g : insert_E(g, cols[nc], head), f1)
      b    == Apply2(AddRows, [f |-> f2, cols |-> cols, cur_row |-> <<>>,
                               next |-> nc + 1], groupby(es))
  IN  b.f

(***************************************************************************)
(* Col.cover / Col.uncover.  Both loops are generators over the live       *)
(* fabric: every step reads the S/E (N/W) reference of the node it stands  *)
(* on in the fabric as changed so far.                                     *)
(***************************************************************************)
\* CoverCell that leaves the count of the column alone.
CoverCell_NoCount(f, cell) ==
  LET f1 == [f  EXCEPT !.S[f.N[cell]] = f.S[cell]]
  IN  [f1 EXCEPT !.N[f1.S[cell]] = f.N[cell]]

\* cell.N.S, cell.S.N = cell.S, cell.N ; cell.C.count -= 1
CoverCell(f, cell) ==
  LET f1 == [f  EXCEPT !.S[f.N[cell]] = f.S[cell]]
      f2 == [f1 EXCEPT !.N[f1.S[cell]] = f.N[cell]]
  IN  [f2 EXCEPT !.count[f2.C[cell]] = @ - 1]

\* CoverRow that unlinks the first of the other cells of the row only.
CoverRow_One(f, row, cur) ==
  LET cell == f.E[cur]
  IN  IF cell = row THEN f ELSE CoverCell(f, cell)

RECURSIVE CoverRow(_, _, _)
CoverRow(f, row, cur) ==
  LET cell == f.E[cur]
  IN  IF cell = row THEN f
      ELSE Apply2(LAMBDA g, c : CoverRow(g, row, c), CoverCell(f, cell), cell)

RECURSIVE CoverRows(_, _, _)
CoverRows(f, self, cur) ==
  LET row == f.S[cur]
  IN  IF row = self THEN f
      ELSE Apply2(LAMBDA g, r : CoverRows(g, self, r), CoverRow(f, row, row), row)

cover(f, self) ==
  LET f1 == [f  EXCEPT !.W[f.E[self]] = f.W[self]]
      f2 == [f1 EXCEPT !.E[f1.W[self]] = f.E[self]]
  IN  Apply2(LAMBDA g, c : CoverRows(g, c, c), f2, self)

\* UncoverCell that relinks the cell from above only: cell.N.S = cell.
UncoverCell_NoSN(f, cell) ==
  LET f1 == [f EXCEPT !.count[f.C[cell]] = @ + 1]
  IN  [f1 EXCEPT !.S[f1.N[cell]] = cell]

\* cell.C.count += 1 ; cell.N.S = cell.S.N = cell
UncoverCell(f, cell) ==
  LET f1 == [f  EXCEPT !.count[f.C[cell]] = @ + 1]
      f2 == [f1 EXCEPT !.S[f1.N[cell]] = cell]
  IN  [f2 EXCEPT !.N[f2.S[cell]] = cell]

RECURSIVE UncoverRow(_, _, _)
UncoverRow(f, row, cur) ==
  LET cell == f.W[cur]
  IN  IF cell = row THEN f
      ELSE Apply2(LAMBDA g, c : UncoverRow(g, row, c), UncoverCell(f, cell), cell)

RECURSIVE UncoverRows(_, _, _)
UncoverRows(f, self, cur) ==
  LET row == f.N[cur]
  IN  IF row = self THEN f
      ELSE Apply2(LAMBDA g, r : UncoverRows(g, self, r), UncoverRow(f, row, row), row)

\* uncover that does not put the header back into the header circle.
uncover_NoRelink(f, self) ==
  Apply2(LAMBDA g, c : UncoverRows(g, c, c), f, self)

uncover(f, self) ==
  Apply2(LAMBDA f1, c :
           LET f2 == [f1 EXCEPT !.W[f1.E[c]] = c]
           IN  [f2 EXCEPT !.E[f2.W[c]] = c],
         Apply2(LAMBDA g, c : UncoverRows(g, c, c), f, self), self)

(***************************************************************************)
(* dancing_links.search: the pieces of one call.                           *)
(***************************************************************************)
\* min(inst.head.iter_dir('E'), key=lambda c: c.count): the first header,
\* walking east from head, whose count no other header undercuts.
\* MinBy that keeps the last of the headers with the least count.
RECURSIVE MinBy_Last(_, _)
MinBy_Last(f, lst) ==
  IF Len(lst) = 1 THEN lst[1]
  ELSE Apply(LAMBDA m : IF f.count[lst[1]] < f.count[m] THEN lst[1] ELSE m,
             MinBy_Last(f, Tail(lst)))

RECURSIVE MinBy(_, _)
MinBy(f, lst) ==
  IF Len(lst) = 1 THEN lst[1]
  ELSE Apply(LAMBDA m : IF f.count[lst[1]] <= f.count[m] THEN lst[1] ELSE m,
             MinBy(f, Tail(lst)))

\* min_col that takes the first header of the circle, whatever its count.
min_col_First(f) == f.E[head]

min_col(f) == MinBy(f, iter_dir(f, head, "E"))

\* solution that lists the stack from its top down.
solution_Reversed(f, o) == [i \in 1..Len(o) |-> f.row[o[Len(o) + 1 - i]]]

\* tuple(o.row for o in out)
solution(f, o) == [i \in 1..Len(o) |-> f.row[o[i]]]

\* A frame of the generator: pc is the line it stands at, col the chosen
\* header, cur the cursor of col.iter_dir('S'), row the variable row, cell
\* the cursor of row.iter_dir('E') / row.iter_dir('W').
Frame(p, c, u, r, x) == [pc |-> p, col |-> c, cur |-> u, row |-> r, cell |-> x]

EnterFrame == Frame("enter", -1, -1, -1, -1)

Top == frames[Len(frames)]

SetTop(fr) == [frames EXCEPT ![Len(frames)] = fr]

\* What a call of search finds on entry (the fabric, the choice stack, the
\* cover and uncover calls made so far), with the rows of the column it then
\* chooses and the rows its loop of line 120 has visited.  entry holds one
\* such record for every frame of frames; the program reads none of them.
Snapshot(f, o, cs) ==
  [fab |-> f, out |-> o, calls |-> cs, rows |-> <<>>, seen |-> <<>>]

\* The frame below the one that returns continues after "for result in
\* search()", at "row = out.pop()".
ReturnTo(fs) ==
  IF Len(fs) <= 1 THEN <<>>
  ELSE [Front(fs) EXCEPT ![Len(fs) - 1].pc = "pop"]

(***************************************************************************)
(* Inputs.  A dense matrix goes through Instance.from_matrix and is        *)
(* consumed by list(dancing_links(inst)) (TestDancingLinks.test); a text   *)
(* input goes through __main__ and is consumed by                          *)
(* zip(dancing_links(inst), range(args.limit)).  A line of text is the     *)
(* list of names str.split(' ') makes of it, which is never empty; the     *)
(* names of a row are distinct (a repeated name is a caller error).        *)
(***************************************************************************)
Ones(M) == SumSeq(Flatten(M))

Matrices ==
  {m \in UNION {[1..h -> [1..w -> {0, 1}]] : h \in 0..MaxRows, w \in 0..MaxCols} :
     Ones(m) <= MaxOnes}

\* The matrix of TestDancingLinks.test.
RefM ==
  << <<0,0,1,0,1,1,0>>,
     <<1,0,0,1,0,0,1>>,
     <<0,1,1,0,0,1,0>>,
     <<1,0,0,1,0,0,0>>,
     <<0,1,0,0,0,0,1>>,
     <<0,0,0,1,1,0,1>> >>

MatrixInput(m) ==
  [api |-> "matrix", M |-> m, cols |-> <<>>, rows |-> <<>>, limit |-> -1]

NameSeq == <<"a", "b", "c", "d", "e", "f", "g", "h">>

\* The lines of at most n distinct names out of the first k names.
Lines(k, n) ==
  {l \in UNION {[1..j -> {NameSeq[i] : i \in 1..k}] : j \in 1..n} :
     \A i, j \in 1..Len(l) : i # j => l[i] # l[j]}

\* The lists of at most h lines holding at most n names in all.
RECURSIVE RowLists(_, _, _)
RowLists(k, h, n) ==
  {<<>>} \cup
  (IF h = 0 \/ n = 0 THEN {}
   ELSE UNION {{<<l>> \o rest : rest \in RowLists(k, h - 1, n - Len(l))} :
                 l \in Lines(k, n)})

\* w declared names; the rows may also use one name that is not declared.
TextInputs ==
  UNION {[api : {"text"}, M : {<<>>}, cols : {SubSeq(NameSeq, 1, w)},
          rows : RowLists(w + 1, MaxRows, MaxTokens), limit : 0..MaxLimit] :
           w \in 1..MaxCols}

Inputs == {MatrixInput(m) : m \in Matrices \cup {RefM}} \cup TextInputs

(***************************************************************************)
(* The program.                                                            *)
(***************************************************************************)
Init ==
  /\ input \in Inputs
  /\ pc = "start"
  /\ err = "none"
  /\ entries = <<>>
  /\ fab = NewNodes(0)
  /\ out = <<>>
  /\ frames = <<>>
  /\ result = <<>>
  /\ results = <<>>
  /\ zipped = 0
  /\ covers = <<>>
  /\ calls = <<>>
  /\ entry = <<>>
  /\ prior = <<>>

\* TestDancingLinks.test, line 158: the argument of Instance(...).
FromMatrix ==
  /\ pc = "start"
  /\ input.api = "matrix"
  /\ entries' = from_matrix(input.M)
  /\ pc' = "construct"
  /\ UNCHANGED <<prior, entry, input, err, fab, out, frames, result, results, zipped, covers, calls>>

\* MainRead with col_index.get(col, 0): an unknown name is taken for the
\* first column.
MainRead_Get ==
  /\ pc = "start"
  /\ input.api = "text"
  /\ entries' = Flatten([i \in 1..Len(input.rows) |->
                  [k \in 1..Len(input.rows[i]) |->
                     <<i - 1, IF HasKey(input.cols, input.rows[i][k])
                              THEN col_index(input.cols, input.rows[i][k])
                              ELSE 0>>]])
  /\ pc' = "construct"
  /\ UNCHANGED <<prior, entry, input, err, fab, out, frames, result, results, zipped, covers, calls>>

\* __main__, lines 183-189: the argument of Instance(...); col_index[col]
\* raises KeyError for a name that is not on the column line.
MainRead ==
  /\ pc = "start"
  /\ input.api = "text"
  /\ IF main_keys_ok(input.cols, input.rows)
     THEN /\ entries' = main_entries(input.cols, input.rows)
          /\ pc' = "construct"
          /\ err' = err
     ELSE /\ err' = "KeyError"
          /\ pc' = "error"
          /\ entries' = entries
  /\ UNCHANGED <<prior, entry, input, fab, out, frames, result, results, zipped, covers, calls>>

\* Instance.__init__: max() of an empty sequence raises ValueError.
InstanceInit ==
  /\ pc = "construct"
  /\ IF entries = <<>>
     THEN /\ err' = "ValueError"
          /\ pc' = "error"
          /\ fab' = fab
     ELSE /\ fab' = initialize(entries)
          /\ pc' = "built"
          /\ err' = err
  /\ UNCHANGED <<prior, entry, input, entries, out, frames, result, results, zipped, covers, calls>>

\* dancing_links(inst): out = [] and the generator, not yet started.
DancingLinks ==
  /\ pc = "built"
  /\ out' = <<>>
  /\ frames' = <<EnterFrame>>
  /\ entry' = <<Snapshot(fab, <<>>, calls)>>
  /\ pc' = "next"
  /\ UNCHANGED <<prior, input, err, entries, fab, result, results, zipped, covers, calls>>

\* next() on the generator: a generator suspended at the yield of line 115
\* falls off the end of its call, and every enclosing call passes on.
GenNext ==
  /\ pc = "next"
  /\ frames' = IF Top.pc = "yield" THEN ReturnTo(frames) ELSE frames
  /\ entry' = IF Top.pc = "yield" THEN Front(entry) ELSE entry
  /\ pc' = "run"
  /\ UNCHANGED <<prior, input, err, entries, fab, out, result, results, zipped, covers, calls>>

\* Lines 114-115.
SearchYield ==
  /\ pc = "run" /\ frames # <<>>
  /\ Top.pc = "enter"
  /\ fab.E[head] = head
  /\ result' = solution(fab, out)
  /\ frames' = SetTop([Top EXCEPT !.pc = "yield"])
  /\ pc' = "yielded"
  /\ UNCHANGED <<prior, entry, input, err, entries, fab, out, results, zipped, covers, calls>>

\* Lines 118-119.
ChooseCol ==
  /\ pc = "run" /\ frames # <<>>
  /\ Top.pc = "enter"
  /\ fab.E[head] # head
  /\ LET col == min_col(fab)
     IN  /\ fab' = cover(fab, col)
         /\ covers' = Append(covers, col)
         /\ calls' = Append(calls, <<"cover", col>>)
         /\ frames' = SetTop(Frame("rows", col, col, -1, -1))
         /\ entry' = [entry EXCEPT ![Len(entry)].rows = iter_dir(fab', col, "S")]
  /\ UNCHANGED <<prior, input, pc, err, entries, out, result, results, zipped>>

\* NextRow that walks the column from the bottom up, col.iter_dir('N').
NextRow_Up ==
  /\ pc = "run" /\ frames # <<>>
  /\ Top.pc = "rows"
  /\ LET row == fab.N[Top.cur]
     IN  IF row = Top.col
         THEN /\ frames' = SetTop([Top EXCEPT !.pc = "uncol"])
              /\ UNCHANGED <<out, entry>>
         ELSE /\ frames' = SetTop(Frame("cover", Top.col, row, row, row))
              /\ out' = Append(out, row)
              /\ entry' = [entry EXCEPT ![Len(entry)].seen = Append(@, row)]
  /\ UNCHANGED <<prior, input, pc, err, entries, fab, result, results, zipped, covers, calls>>

\* Lines 120-121: the next row of col.iter_dir('S'), or the end of the loop.
NextRow ==
  /\ pc = "run" /\ frames # <<>>
  /\ Top.pc = "rows"
  /\ LET row == fab.S[Top.cur]
     IN  IF row = Top.col
         THEN /\ frames' = SetTop([Top EXCEPT !.pc = "uncol"])
              /\ UNCHANGED <<out, entry>>
         ELSE /\ frames' = SetTop(Frame("cover", Top.col, row, row, row))
              /\ out' = Append(out, row)
              /\ entry' = [entry EXCEPT ![Len(entry)].seen = Append(@, row)]
  /\ UNCHANGED <<prior, input, pc, err, entries, fab, result, results, zipped, covers, calls>>

\* Lines 122-124: cover the column of the next cell of row.iter_dir('E'), or,
\* at the end of the loop, call search().
CoverRowCols ==
  /\ pc = "run" /\ frames # <<>>
  /\ Top.pc = "cover"
  /\ LET cell == fab.E[Top.cell]
     IN  IF cell = Top.row
         THEN /\ frames' = Append(SetTop([Top EXCEPT !.pc = "inner"]), EnterFrame)
              /\ entry' = Append(entry, Snapshot(fab, out, calls))
              /\ UNCHANGED <<fab, covers, calls>>
         ELSE /\ fab' = cover(fab, fab.C[cell])
              /\ covers' = Append(covers, fab.C[cell])
              /\ calls' = Append(calls, <<"cover", fab.C[cell]>>)
              /\ frames' = SetTop([Top EXCEPT !.cell = cell])
              /\ entry' = entry
  /\ UNCHANGED <<prior, input, pc, err, entries, out, result, results, zipped>>

\* PopRow without out.pop(): the row stays on the stack.
PopRow_NoPop ==
  /\ pc = "run" /\ frames # <<>>
  /\ Top.pc = "pop"
  /\ frames' = SetTop([Top EXCEPT !.pc = "uncover", !.cell = Top.row])
  /\ UNCHANGED <<prior, entry, input, pc, err, entries, fab, out, result, results, zipped, covers, calls>>

\* Line 126.
PopRow ==
  /\ pc = "run" /\ frames # <<>>
  /\ Top.pc = "pop"
  /\ frames' = SetTop([Top EXCEPT !.pc = "uncover", !.row = Last(out),
                                  !.cell = Last(out)])
  /\ out' = Front(out)
  /\ UNCHANGED <<prior, entry, input, pc, err, entries, fab, result, results, zipped, covers, calls>>

\* covers is the stack of the covers not yet undone and calls the list of
\* all cover and uncover calls made; neither is read by the program.
\* The stack of covers not yet undone, after uncover(c).
Undo(cs, c) == IF cs # <<>> /\ Last(cs) = c THEN Front(cs) ELSE Append(cs, -1)

\* UncoverRowCols that walks the row E, as the covers did.
UncoverRowCols_East ==
  /\ pc = "run" /\ frames # <<>>
  /\ Top.pc = "uncover"
  /\ LET cell == fab.E[Top.cell]
     IN  IF cell = Top.row
         THEN /\ frames' = SetTop([Top EXCEPT !.pc = "rows"])
              /\ UNCHANGED <<fab, covers, calls>>
         ELSE /\ fab' = uncover(fab, fab.C[cell])
              /\ covers' = Undo(covers, fab.C[cell])
              /\ calls' = Append(calls, <<"uncover", fab.C[cell]>>)
              /\ frames' = SetTop([Top EXCEPT !.cell = cell])
  /\ UNCHANGED <<prior, entry, input, pc, err, entries, out, result, results, zipped>>

\* Lines 127-128: uncover the column of the next cell of row.iter_dir('W'),
\* or, at the end of the loop, go back to the head of the loop of line 120.
UncoverRowCols ==
  /\ pc = "run" /\ frames # <<>>
  /\ Top.pc = "uncover"
  /\ LET cell == fab.W[Top.cell]
     IN  IF cell = Top.row
         THEN /\ frames' = SetTop([Top EXCEPT !.pc = "rows"])
              /\ UNCHANGED <<fab, covers, calls>>
         ELSE /\ fab' = uncover(fab, fab.C[cell])
              /\ covers' = Undo(covers, fab.C[cell])
              /\ calls' = Append(calls, <<"uncover", fab.C[cell]>>)
              /\ frames' = SetTop([Top EXCEPT !.cell = cell])
  /\ UNCHANGED <<prior, entry, input, pc, err, entries, out, result, results, zipped>>

\* UncoverCol that returns without col.uncover().
UncoverCol_NoUncover ==
  /\ pc = "run" /\ frames # <<>>
  /\ Top.pc = "uncol"
  /\ frames' = ReturnTo(frames)
  /\ entry' = Front(entry)
  /\ UNCHANGED <<prior, input, pc, err, entries, fab, out, result, results, zipped,
                 covers, calls>>

\* Line 129, and the return of the call.
UncoverCol ==
  /\ pc = "run" /\ frames # <<>>
  /\ Top.pc = "uncol"
  /\ fab' = uncover(fab, Top.col)
  /\ covers' = Undo(covers, Top.col)
  /\ calls' = Append(calls, <<"uncover", Top.col>>)
  /\ frames' = ReturnTo(frames)
  /\ entry' = Front(entry)
  /\ UNCHANGED <<prior, input, pc, err, entries, out, result, results, zipped>>

\* The outermost call has returned: StopIteration ends list() and zip().
Exhausted ==
  /\ pc = "run" /\ frames = <<>>
  /\ pc' = "done"
  /\ UNCHANGED <<prior, entry, input, err, entries, fab, out, frames, result, results, zipped,
                 covers, calls>>

\* list(): keep the solution and ask for the next one (line 171).
ListTake ==
  /\ pc = "yielded"
  /\ input.api = "matrix"
  /\ results' = Append(results, result)
  /\ pc' = "next"
  /\ UNCHANGED <<prior, entry, input, err, entries, fab, out, frames, result, zipped, covers, calls>>

\* ZipTake with range(args.limit + 1).
ZipTake_OneMore ==
  /\ pc = "yielded"
  /\ input.api = "text"
  /\ IF zipped <= input.limit
     THEN /\ results' = Append(results, result)
          /\ zipped' = zipped + 1
          /\ pc' = "next"
     ELSE /\ pc' = "done"
          /\ UNCHANGED <<results, zipped>>
  /\ UNCHANGED <<prior, entry, input, err, entries, fab, out, frames, result, covers, calls>>

\* zip(): after the generator has given a solution, range(args.limit) is
\* asked; when it is exhausted the loop ends and the solution is dropped,
\* else the body prints it (lines 191-192).
ZipTake ==
  /\ pc = "yielded"
  /\ input.api = "text"
  /\ IF zipped < input.limit
     THEN /\ results' = Append(results, result)
          /\ zipped' = zipped + 1
          /\ pc' = "next"
     ELSE /\ pc' = "done"
          /\ UNCHANGED <<results, zipped>>
  /\ UNCHANGED <<prior, entry, input, err, entries, fab, out, frames, result, covers, calls>>

Next ==
  \/ FromMatrix
  \/ MainRead
  \/ InstanceInit
  \/ DancingLinks
  \/ GenNext
  \/ SearchYield
  \/ ChooseCol
  \/ NextRow
  \/ CoverRowCols
  \/ PopRow
  \/ UncoverRowCols
  \/ UncoverCol
  \/ Exhausted
  \/ ListTake
  \/ ZipTake

Spec == Init /\ [][Next]_vars

\* The interpreter keeps running the program: a step that can be taken is
\* taken.
FairSpec == Spec /\ WF_vars(Next)

(***************************************************************************)
(* Col.cover and Col.uncover called directly on a built fabric: some       *)
(* covers, then the uncovers of the same columns, last covered first.      *)
(***************************************************************************)
Headers == 1..ncols(entries)

CoverCall ==
  /\ pc \in {"built", "covering"}
  /\ Len(covers) < MaxCovers
  /\ \E c \in Headers :
       /\ fab' = cover(fab, c)
       /\ covers' = Append(covers, c)
       /\ calls' = Append(calls, <<"cover", c>>)
  /\ pc' = "covering"
  /\ UNCHANGED <<prior, entry, input, err, entries, out, frames, result, results, zipped>>

UncoverCall ==
  /\ pc \in {"covering", "uncovering"}
  /\ covers # <<>>
  /\ fab' = uncover(fab, Last(covers))
  /\ covers' = Front(covers)
  /\ calls' = Append(calls, <<"uncover", Last(covers)>>)
  /\ pc' = "uncovering"
  /\ UNCHANGED <<prior, entry, input, err, entries, out, frames, result, results, zipped>>

NextCover ==
  \/ FromMatrix
  \/ InstanceInit
  \/ CoverCall
  \/ UncoverCall

\* The fabrics the calls are made on: the matrix of the test and the small
\* matrices with few 1s.
InitCover ==
  /\ Init
  /\ input.api = "matrix"
  /\ input.M = RefM \/ Ones(input.M) <= MaxCoverOnes

SpecCover == InitCover /\ [][NextCover]_vars

(***************************************************************************)
(* dancing_links called a second time on the same Instance object, after   *)
(* list() has consumed the first sequence to exhaustion: out = [] anew and *)
(* the fabric as the first run left it.  prior keeps the list of the first *)
(* run.                                                                    *)
(***************************************************************************)
SecondRun ==
  /\ pc = "done"
  /\ input.api = "matrix"
  /\ frames = <<>>
  /\ prior = <<>>
  /\ prior' = <<results>>
  /\ results' = <<>>
  /\ out' = <<>>
  /\ frames' = <<EnterFrame>>
  /\ entry' = <<Snapshot(fab, <<>>, calls)>>
  /\ pc' = "next"
  /\ UNCHANGED <<input, err, entries, fab, result, zipped, covers, calls>>

NextTwice ==
  \/ FromMatrix
  \/ InstanceInit
  \/ DancingLinks
  \/ GenNext
  \/ SearchYield
  \/ ChooseCol
  \/ NextRow
  \/ CoverRowCols
  \/ PopRow
  \/ UncoverRowCols
  \/ UncoverCol
  \/ Exhausted
  \/ ListTake
  \/ SecondRun

InitTwice == Init /\ input.api = "matrix"

SpecTwice == InitTwice /\ [][NextTwice]_vars

(***************************************************************************)
(* Instance(entries) called directly with a list of (row, col) pairs, in   *)
(* any order; no pair occurs twice.                                        *)
(***************************************************************************)
EntrySeqs ==
  {es \in UNION {[1..n -> (0..(MaxRows - 1)) \X (0..(MaxCols - 1))] :
                   n \in 0..MaxEntries} :
     \A i, j \in 1..Len(es) : i # j => es[i] # es[j]}

EntriesInput ==
  [api |-> "entries", M |-> <<>>, cols |-> <<>>, rows |-> <<>>, limit |-> -1]

InitBuild ==
  /\ input = EntriesInput
  /\ pc = "construct"
  /\ err = "none"
  /\ entries \in EntrySeqs
  /\ fab = NewNodes(0)
  /\ out = <<>>
  /\ frames = <<>>
  /\ result = <<>>
  /\ results = <<>>
  /\ zipped = 0
  /\ covers = <<>>
  /\ calls = <<>>
  /\ entry = <<>>
  /\ prior = <<>>

NextBuild == InstanceInit

SpecBuild == InitBuild /\ [][NextBuild]_vars

(***************************************************************************)
(* The instance as the caller gave it, read off the input and not off the  *)
(* fabric: its columns, its rows and its exact covers.                     *)
(***************************************************************************)
DeclaredNCols ==
  IF input.api = "matrix"
  THEN (IF input.M = <<>> THEN 0 ELSE Len(input.M[1]))
  ELSE Len(input.cols)

DeclaredNRows == IF input.api = "matrix" THEN Len(input.M) ELSE Len(input.rows)

DeclaredCols == 0..(DeclaredNCols - 1)

DeclaredRows == 0..(DeclaredNRows - 1)

\* The columns that row r contains.
RowCols(r) ==
  IF r \notin DeclaredRows THEN {}
  ELSE IF input.api = "matrix"
  THEN {c \in DeclaredCols : input.M[r + 1][c + 1] = 1}
  ELSE {c \in DeclaredCols : input.cols[c + 1] \in Range(input.rows[r + 1])}

\* Some row names a column that the column line does not declare.
UnknownColumn ==
  /\ input.api = "text"
  /\ \E i \in 1..Len(input.rows) : ~(Range(input.rows[i]) \subseteq Range(input.cols))

\* The set R of rows covers every column exactly once.
IsExactCover(R) ==
  \A c \in DeclaredCols : Cardinality({r \in R : c \in RowCols(r)}) = 1

ExactCovers == {R \in SUBSET DeclaredRows : IsExactCover(R)}

NonEmptyRows == {r \in DeclaredRows : RowCols(r) # {}}

\* How many of the solutions in rs name exactly the rows R.
Times(rs, R) ==
  Cardinality({i \in 1..Len(rs) : Range(rs[i]) = R /\ Len(rs[i]) = Cardinality(R)})

\* The generator has been consumed to exhaustion.
IsExhausted == pc = "done" /\ frames = <<>>

\* The solutions of the instance as built (ncols columns, the rows of entries).
BuiltRowCols(r) == {second(e) : e \in {x \in Range(entries) : first(x) = r}}

BuiltCovers ==
  {R \in SUBSET {first(e) : e \in Range(entries)} :
     \A c \in 0..(ncols(entries) - 1) :
        Cardinality({r \in R : c \in BuiltRowCols(r)}) = 1}

Min(a, b) == IF a <= b THEN a ELSE b

\* TestDancingLinks.test, "ones": the (row, position of the header) pairs met
\* walking the headers east from head and every column south.
WalkPairs(f) ==
  LET hs == iter_dir(f, head, "E")
  IN  UNION {{<<f.row[r], ci - 1>> : r \in Range(iter_dir(f, hs[ci], "S"))} :
               ci \in 1..Len(hs)}

SuppliedPairs == {<<r, c>> \in DeclaredRows \X DeclaredCols : c \in RowCols(r)}

(***************************************************************************)
(* Claims.                                                                 *)
(***************************************************************************)
\* C1: in every solution tuple the generator produces, the rows have
\* pairwise disjoint column sets and together contain every column of the
\* instance.  Fails: a declared column after the last used one gets no
\* header (C5), so a tuple is produced that leaves it uncovered.
C1_ExactCoverValidity ==
  pc = "yielded" =>
    /\ \A i, j \in 1..Len(result) :
         i # j => RowCols(result[i]) \cap RowCols(result[j]) = {}
    /\ UNION {RowCols(result[i]) : i \in 1..Len(result)} = DeclaredCols

\* C2 as stated: at exhaustion every exact cover of the instance has been
\* produced exactly once.  Fails for a cover that contains an all-zero row.
C2_EveryCoverOnce ==
  IsExhausted => \A R \in ExactCovers : Times(results, R) = 1

\* C2 amended: at exhaustion every exact cover made of rows that contain at
\* least one column has been produced exactly once, and no set of rows has
\* been produced twice.
C2_EveryNonEmptyCoverOnce ==
  IsExhausted =>
    /\ \A R \in ExactCovers : R \subseteq NonEmptyRows => Times(results, R) = 1
    /\ \A i, j \in 1..Len(results) :
         i # j => Range(results[i]) # Range(results[j])

C2_Witness ==
  /\ IsExhausted
  /\ Len(results) >= 2
  /\ \A i \in 1..Len(results) : Range(results[i]) \in ExactCovers

\* The columns of the cover calls made so far are pairwise distinct.
DistinctCovers ==
  \A i, j \in 1..Len(calls) :
    (i # j /\ calls[i][1] = "cover" /\ calls[j][1] = "cover")
      => calls[i][2] # calls[j][2]

AllUncovered == pc = "uncovering" /\ covers = <<>>

\* C3 as stated: after any covers c1..cn and the uncovers cn..c1 every
\* reference and every count is as built.  Fails when a column is covered
\* again while covered (cover 1, cover 2, cover 1).
C3_Reversible == AllUncovered => fab = initialize(entries)

\* C3 amended: after covers of pairwise distinct columns c1..cn and the
\* uncovers cn..c1 every reference and every count is as built.
C3_ReversibleDistinct ==
  (AllUncovered /\ DistinctCovers) => fab = initialize(entries)

C3_Witness ==
  /\ AllUncovered
  /\ DistinctCovers
  /\ Len(calls) >= 4
  /\ fab = initialize(entries)
  /\ \E c \in Headers : fab.count[c] >= 2

\* C4: the (row, column) pairs met walking a built fabric are exactly the
\* pairs supplied.
C4_RoundTrip == pc = "built" => WalkPairs(fab) = SuppliedPairs

C4_Witness ==
  /\ pc = "built"
  /\ Cardinality(SuppliedPairs) >= 3
  /\ \E r \in DeclaredRows : Cardinality(RowCols(r)) >= 2
  /\ WalkPairs(fab) = SuppliedPairs

\* C5: a built fabric has as many headers as the instance declares columns.
\* Fails: ncols is one more than the largest column index in entries.
C5_HeaderCount ==
  pc = "built" => Len(iter_dir(fab, head, "E")) = DeclaredNCols

\* C6: an instance with zero columns is built without error and yields the
\* empty tuple and nothing else.  Fails: max() of no entries raises.
C6_ZeroColumns ==
  (DeclaredNCols = 0 /\ pc \in {"done", "error"}) =>
    (pc = "done" /\ err = "none" /\ results = << <<>> >>)

\* C7: an instance with zero rows and at least one column is built without
\* error and yields nothing.  Fails: max() of no entries raises.
C7_ZeroRows ==
  (DeclaredNRows = 0 /\ DeclaredNCols >= 1 /\ pc \in {"done", "error"}) =>
    (pc = "done" /\ err = "none" /\ results = <<>>)

\* C8: when a row names a column that is not declared, the build fails (the
\* lookup col_index[col] raises KeyError, the UnknownColumn failure), no
\* instance exists and no search step is ever taken.
C8_UnknownColumnFails ==
  UnknownColumn =>
    /\ pc \in {"start", "error"}
    /\ pc = "error" => err = "KeyError"
    /\ entries = <<>> /\ fab = NewNodes(0)
    /\ frames = <<>> /\ calls = <<>> /\ results = <<>>

C8_Witness == UnknownColumn /\ pc = "error" /\ err = "KeyError"

\* C9: a consumer that stops after limit solutions receives min(limit, T)
\* solutions, T the number of solutions of the instance, and no error is
\* raised; list() receives all T.
C9_EarlyStop ==
  /\ pc \in {"built", "next", "run", "yielded", "done"} => err = "none"
  /\ input.api = "text" => zipped = Len(results) /\ zipped <= input.limit
  /\ (pc = "done" /\ input.api = "text") =>
       Len(results) = Min(input.limit, Cardinality(BuiltCovers))
  /\ (pc = "done" /\ input.api = "matrix") =>
       Len(results) = Cardinality(BuiltCovers)

C9_Witness ==
  /\ pc = "done"
  /\ input.api = "text"
  /\ input.limit >= 1
  /\ input.limit < Cardinality(BuiltCovers)
  /\ Len(results) = input.limit

\* C10: the 6x7 matrix of the test yields the one solution (3, 0, 4).
C10_Reference ==
  (input.M = RefM /\ pc = "done") => results = << <<3, 0, 4>> >>

C10_Witness == input.M = RefM /\ pc = "done" /\ frames = <<>>

\* C11: a solution is emitted when the header circle is empty, and it is the
\* tuple of the original row indices of the rows on the choice stack, in the
\* order they were chosen: its i-th entry is the row chosen by the i-th call
\* of search, outermost first, one entry for every call that is waiting in
\* its recursive call, and no row index occurs twice.
C11_SolutionIsStack ==
  pc = "yielded" =>
    /\ fab.E[head] = head
    /\ Len(result) = Len(frames) - 1
    /\ Len(out) = Len(result)
    /\ \A i \in 1..Len(result) :
         /\ frames[i].pc = "inner"
         /\ out[i] = frames[i].row
         /\ result[i] = fab.row[frames[i].row]
    /\ \A i, j \in 1..Len(result) : i # j => result[i] # result[j]

C11_Witness ==
  /\ pc = "yielded"
  /\ Len(result) >= 2
  /\ result[1] > result[2]

\* C12: between any two cover and uncover calls of a search (at every entry
\* to search, every emission and every return among them) the count of every
\* header, in the header circle or covered, is the number of cells met
\* walking S from the header until the header is met again.
C12_CountIsColumnLength ==
  pc \in {"built", "next", "run", "yielded", "done"} =>
    \A c \in Headers : fab.count[c] = Len(iter_dir(fab, c, "S"))

C12_Witness ==
  /\ pc = "run" /\ Len(frames) >= 2
  /\ Top.pc = "enter"
  /\ \E c \in Range(covers) :
       fab.count[c] >= 1 /\ fab.count[c] = Len(iter_dir(fab, c, "S"))
  /\ \E c \in Range(iter_dir(fab, head, "E")) :
       /\ fab.count[c] >= 1
       /\ fab.count[c] < initialize(entries).count[c]
       /\ fab.count[c] = Len(iter_dir(fab, c, "S"))

\* The original indices of the rows on the choice stack, and the columns
\* whose headers are met walking E from head.
StackRows == {fab.row[out[i]] : i \in 1..Len(out)}

LiveCols == {h - 1 : h \in Range(iter_dir(fab, head, "E"))}

\* A call of search stands at its entry (line 114) or at its yield.
AtEntryOrEmission ==
  /\ pc \in {"next", "run", "yielded"}
  /\ frames # <<>>
  /\ Top.pc \in {"enter", "yield"}

\* C13: at every entry to search and every emission the headers in the
\* header circle are exactly the columns of the instance that none of the
\* rows on the choice stack contains, and the circle is empty exactly when
\* the rows on the stack cover every column.  Fails: a declared column after
\* the last used one has no header (C5), so it is in no circle although no
\* row on the stack contains it.
C13_LiveHeaders ==
  AtEntryOrEmission =>
    /\ LiveCols = {c \in DeclaredCols : \A r \in StackRows : c \notin RowCols(r)}
    /\ (fab.E[head] = head) <=>
         (UNION {RowCols(r) : r \in StackRows} = DeclaredCols)

\* The place of x in the list L.
IndexOf(L, x) == CHOOSE i \in 1..Len(L) : L[i] = x

\* The columns a call of search has covered and not yet uncovered, in the
\* order of its covers: the chosen column, then the columns of the cells of
\* the chosen row, walking E, up to the cell its loop stands at (line 122),
\* all of them while it waits in the recursive call, and those before the
\* cell its loop stands at once it uncovers them walking W (line 127).
FrameCovers(fr) ==
  IF fr.pc \in {"enter", "yield"} THEN <<>>
  ELSE IF fr.pc \in {"rows", "uncol"} THEN <<fr.col>>
  ELSE LET L == iter_dir(fab, fr.row, "E")
           k == IF fr.pc \in {"inner", "pop"} THEN Len(L)
                ELSE IF fr.cell = fr.row
                     THEN (IF fr.pc = "cover" THEN 0 ELSE Len(L))
                     ELSE (IF fr.pc = "cover" THEN IndexOf(L, fr.cell)
                                              ELSE IndexOf(L, fr.cell) - 1)
       IN  <<fr.col>> \o [i \in 1..k |-> fab.C[L[i]]]

\* C14: the cover and uncover calls of a search are nested like brackets.
\* Every uncover(c) is made when the last cover not yet undone is cover(c);
\* the covers not yet undone are, call of search by call of search, the
\* chosen column followed by the columns of the chosen row in the order of
\* the walk E, so these are uncovered last covered first (the walk W) and
\* the chosen column last; at exhaustion every cover has been undone.
C14_WellNested ==
  pc \in {"next", "run", "yielded", "done"} =>
    /\ \A i \in 1..Len(covers) : covers[i] # -1
    /\ covers = Flatten([i \in 1..Len(frames) |-> FrameCovers(frames[i])])
    /\ IsExhausted =>
         /\ covers = <<>>
         /\ Len(calls) = 2 * Cardinality({i \in 1..Len(calls) : calls[i][1] = "cover"})

C14_Witness ==
  /\ IsExhausted
  /\ covers = <<>>
  /\ \E i \in 1..(Len(calls) - 5) :
       /\ \A k \in 0..2 : calls[i + k][1] = "cover"
       /\ \A k \in 0..2 : calls[i + 5 - k] = <<"uncover", calls[i + k][2]>>
       /\ calls[i + 1][2] # calls[i + 2][2]

\* C15: when list() has consumed dancing_links(inst) to exhaustion every
\* reference and every count of the fabric is as built and the choice stack
\* is empty, and a second run of dancing_links on the same Instance yields
\* the list of the first run, in the same order.
C15_RestoredAndRepeatable ==
  IsExhausted =>
    /\ fab = initialize(entries)
    /\ out = <<>>
    /\ prior # <<>> => results = prior[1]

C15_Witness ==
  /\ IsExhausted
  /\ prior # <<>>
  /\ Len(prior[1]) >= 2
  /\ results = prior[1]
  /\ fab = initialize(entries)
  /\ Len(calls) >= 8

\* C16: the column a call of search chooses and covers is, in the fabric the
\* call found on entry, a header of the header circle whose count no header
\* of the circle undercuts, and the first such header walking E from head.
C16_FirstMinimalColumn ==
  \A i \in 1..Len(frames) :
    frames[i].col # -1 =>
      LET f  == entry[i].fab
          hs == iter_dir(f, head, "E")
          c  == frames[i].col
      IN  /\ \E k \in 1..Len(hs) :
               /\ hs[k] = c
               /\ \A j \in 1..Len(hs) : f.count[c] <= f.count[hs[j]]
               /\ \A j \in 1..(k - 1) : f.count[hs[j]] > f.count[c]
          /\ calls[Len(entry[i].calls) + 1] = <<"cover", c>>

C16_Witness ==
  /\ pc = "run" /\ frames # <<>>
  /\ Top.pc = "rows" /\ Top.row = -1
  /\ LET f  == Last(entry).fab
         hs == iter_dir(f, head, "E")
     IN  /\ Len(hs) >= 3
         /\ Top.col = hs[2]
         /\ f.count[hs[3]] = f.count[hs[2]]
         /\ f.count[hs[1]] > f.count[hs[2]]

\* A call of search whose chosen column had count zero when it was chosen
\* is about to return (line 129).
ZeroCountReturn ==
  /\ pc = "run" /\ frames # <<>>
  /\ Top.pc = "uncol"
  /\ Last(entry).fab.count[Top.col] = 0

\* C17: a call of search that chooses a column of count zero pushes no row
\* and calls search for none (its loop of line 120 visits nothing, and it
\* has made no call but the cover of the column), so it emits nothing, and
\* the step that returns from it leaves the fabric and the choice stack as
\* the call found them on entry.
C17_ZeroCountBranch ==
  [][ZeroCountReturn =>
       /\ Top.row = -1
       /\ Last(entry).seen = <<>>
       /\ calls = Append(Last(entry).calls, <<"cover", Top.col>>)
       /\ out = Last(entry).out
       /\ fab' = Last(entry).fab
       /\ out' = Last(entry).out
       /\ frames' = ReturnTo(frames)
       /\ results' = results /\ result' = result /\ pc' = "run"]_vars

C17_Witness ==
  /\ pc = "run" /\ frames # <<>>
  /\ Top.pc = "pop"
  /\ out # <<>>
  /\ Len(calls) >= 3
  /\ calls[Len(calls) - 1][1] = "cover"
  /\ Last(calls) = <<"uncover", calls[Len(calls) - 1][2]>>
  /\ fab.count[Last(calls)[2]] = 0

\* The row cells of the fabric: the nodes that are neither head nor header.
Cells == {x \in DOMAIN fab.N : x > ncols(entries)}

\* The list of numbers cs, read as a circle, ascends: it steps down at most
\* once, from its largest member back to its least.
AscendingCircle(cs) ==
  Cardinality({i \in 1..Len(cs) : cs[i] >= cs[(i % Len(cs)) + 1]}) <= 1

\* C18: in the fabric built from any list of (row, col) pairs, walking E
\* from a row cell meets exactly the other cells with the same original row
\* index, each once, in column order, and walking S from a header meets
\* exactly the cells of that column, each once, in row order.  Fails:
\* Instance.__iter__ groups the pairs as they come, without sorting them.
C18_CirclesInOrder ==
  pc = "built" =>
    /\ \A x \in Cells :
         LET L == iter_dir(fab, x, "E")
         IN  /\ Range(L) = {y \in Cells : fab.row[y] = fab.row[x] /\ y # x}
             /\ \A i, j \in 1..Len(L) : i # j => L[i] # L[j]
             /\ Len(L) >= 1 =>
                  AscendingCircle(<<fab.C[x]>> \o [i \in 1..Len(L) |-> fab.C[L[i]]])
    /\ \A c \in Headers :
         LET L == iter_dir(fab, c, "S")
         IN  /\ Range(L) = {y \in Cells : fab.C[y] = c}
             /\ \A i, j \in 1..Len(L) : i < j => fab.row[L[i]] < fab.row[L[j]]

\* The header c and the cells of its vertical circle.
Column(c) == {c} \cup Range(iter_dir(fab, c, "S"))

\* No step changes the S or the N reference of the header or of a cell of
\* the vertical circle of a column that is covered and not yet uncovered.
ColumnFrame ==
  \A c \in Range(covers) :
    \A x \in Column(c) : fab'.S[x] = fab.S[x] /\ fab'.N[x] = fab.N[x]

\* The rows the loop of line 120 has visited are the first rows of the
\* column as it was when covered, in that order, the cursor of the loop is
\* the last of them, and when the loop has ended they are all its rows.
LoopVisits ==
  \A i \in 1..Len(frames) :
    frames[i].col # -1 =>
      LET rows == entry[i].rows
          seen == entry[i].seen
      IN  /\ rows = iter_dir(fab, frames[i].col, "S")
          /\ \A j, k \in 1..Len(rows) : j # k => rows[j] # rows[k]
          /\ Len(seen) <= Len(rows)
          /\ seen = SubSeq(rows, 1, Len(seen))
          /\ frames[i].cur = IF seen = <<>> THEN frames[i].col ELSE Last(seen)
          /\ frames[i].pc = "uncol" => seen = rows

\* C19: from the cover of a column to its uncover no cover and no uncover
\* (of another column, or its own uncover) changes the S or N reference of
\* its header or of a cell of its vertical circle; so the loop over the rows
\* of the chosen column visits exactly the rows the column had when it was
\* covered, each once, from the top down.
C19_ColumnUntouched == [][ColumnFrame]_vars /\ []LoopVisits

C19_Witness ==
  /\ pc = "run" /\ Len(frames) = 1
  /\ frames[1].pc = "uncol"
  /\ Len(entry[1].seen) >= 2
  /\ entry[1].seen = entry[1].rows
  /\ covers = <<frames[1].col>>
  /\ \E i \in 1..Len(calls) : calls[i][2] # frames[1].col
  /\ Column(frames[1].col) = {frames[1].col} \cup Range(entry[1].rows)

\* The tuple a comes before the tuple b in the order of the search: where
\* they first differ, the row of a stands above the row of b.
SearchBefore(a, b) ==
  \E k \in 1..Min(Len(a), Len(b)) :
    /\ a[k] < b[k]
    /\ \A j \in 1..(k - 1) : a[j] = b[j]

\* The solutions received so far are in the order of the search, and the
\* last one received is the last one the generator produced.
FirstFoundFirst ==
  /\ \A i \in 1..(Len(results) - 1) : SearchBefore(results[i], results[i + 1])
  /\ (results # <<>> /\ pc \in {"next", "run"}) => Last(results) = result

\* C20: the program ends: the consumer reaches the end of its loop or the
\* build raises; list(), which asks until StopIteration, ends with the
\* outermost call of search returned, after finitely many cover and uncover
\* calls as many of which are uncovers as covers; and the solutions come in
\* depth-first order, each handed over when it is found.
C20_TerminatesInOrder ==
  /\ <>(pc \in {"done", "error"})
  /\ []((pc = "done" /\ input.api = "matrix") => (frames = <<>> /\ covers = <<>>))
  /\ []FirstFoundFirst

C20_Witness ==
  /\ pc = "done" /\ frames = <<>>
  /\ input.api = "matrix"
  /\ Len(results) >= 2
  /\ Len(calls) >= 6
  /\ FirstFoundFirst

====
